---------------------------- MODULE Spec2Model ----------------------------
(***************************************************************************)
(* A model of BalatroBot's game objects (src/BalatroObjects.py) and of its *)
(* search-tree nodes (src/GameStates.py).                                  *)
(*                                                                         *)
(* Python objects are records.  An attribute an object does not have is a  *)
(* field the record does not have.  None is the empty tuple and a present  *)
(* optional value m is <<m>>.  A dict is the sequence of its <<key, value>>*)
(* pairs in insertion order, with distinct keys.  The half-valued floats   *)
(* of the multiplier table are kept exact by counting in halves.           *)
(*                                                                         *)
(* op, arg, result and raised record the last call made: its name, its     *)
(* argument, what it returned and the exception it raised ("None" when it  *)
(* returned normally).  bossPre, ledgerPre and nodePre hold the object as  *)
(* it was when that call started.                                          *)
(***************************************************************************)
EXTENDS Integers, Sequences, FiniteSets, TLC

VARIABLES boss, bossPre, ledger, ledgerPre, ledger0, voucher, calls,
          hand, levelUps, node, nodePre, op, arg, result, raised

vars == <<boss, bossPre, ledger, ledgerPre, ledger0, voucher, calls,
          hand, levelUps, node, nodePre, op, arg, result, raised>>

bossVars == <<boss, bossPre>>
ledgerVars == <<ledger, ledgerPre, ledger0>>
voucherVars == <<voucher, calls>>
handVars == <<hand, levelUps>>
nodeVars == <<node, nodePre>>

None == <<>>

Some(m) == <<m>>

Min(a, b) == IF a <= b THEN a ELSE b

(***************************************************************************)
(* Bounds of the model.                                                    *)
(***************************************************************************)
MaxBlind == 6
MaxRate == 2
MaxDifficulty == 2
MaxValue == 2
MaxLedger == 2
MaxCalls == 3
MaxLevel == 5
MaxScore == 2
MaxRounds == 2
MaxMultiplier == 2
MaxItems == 3
MaxCost == 2
MaxMoney == 2

Values == 1..MaxValue

(***************************************************************************)
(* The ledger: the game_state / player object the dispatchers mutate.      *)
(***************************************************************************)
LedgerZero ==
    [chips |-> 0, multiplier |-> 0, base_multiplier |-> 0, double_bet |-> FALSE,
     rerolls_remaining |-> 0, shop_discount |-> 0, shop_slots |-> 0]

Abs(n) == IF n < 0 THEN -n ELSE n

\* The model stops adding to a ledger whose numbers have grown to MaxLedger in all.
InLedgerRange(l) ==
    Abs(l.chips) + Abs(l.multiplier) + Abs(l.base_multiplier) + Abs(l.rerolls_remaining)
        + Abs(l.shop_discount) + Abs(l.shop_slots) <= MaxLedger

(***************************************************************************)
(* Rule dicts: special_rules of a BalatroDeck or of a BossBlinds.          *)
(***************************************************************************)
RuleNames == {"bonus_chips", "extra_multiplier", "reroll_bonus", "double_bet", "mystery"}

\* The dicts of no rule, of one rule and of two different rules, of magnitude m.
RuleDicts ==
    {<<>>}
        \cup {<<<<a, m>>>> : a \in RuleNames, m \in Values}
        \cup {<<<<a[1], m>>, <<a[2], m>>>> :
                  a \in {x \in RuleNames \X RuleNames : x[1] # x[2]}, m \in Values}

\* The special_rules a BossBlinds is built with: none, one the boss dispatcher
\* knows, a known one followed by an unknown one, and two it does not know.
BossRuleChoices ==
    {<<>>,
     <<<<"bonus_chips", 1>>>>,
     <<<<"double_bet", 1>>, <<"mystery", 1>>>>,
     <<<<"extra_multiplier", 1>>, <<"increase_chips", 1>>>>}

(***************************************************************************)
(* BossBlinds                                                              *)
(***************************************************************************)
BossBlinds(small_blind, big_blind, escalation_rate, max_blind_cap, difficulty_level, special_rules) ==
    [small_blind |-> small_blind,
     big_blind |-> big_blind,
     escalation_rate |-> escalation_rate,
     max_blind_cap |-> max_blind_cap,
     difficulty_level |-> difficulty_level,
     special_rules |-> special_rules,
     round_counter |-> 0,
     boss_mode_active |-> FALSE]

BossStep == 5

Called(name, a, r, e) ==
    /\ op' = name
    /\ arg' = a
    /\ result' = r
    /\ raised' = e

activate_boss_mode ==
    /\ bossPre' = boss
    /\ boss' = [boss EXCEPT !.boss_mode_active = TRUE]
    /\ Called("activate_boss_mode", None, None, "None")
    /\ UNCHANGED <<ledgerVars, voucherVars, handVars, nodeVars>>

deactivate_boss_mode ==
    /\ bossPre' = boss
    /\ boss' = [boss EXCEPT !.boss_mode_active = FALSE]
    /\ Called("deactivate_boss_mode", None, None, "None")
    /\ UNCHANGED <<ledgerVars, voucherVars, handVars, nodeVars>>

EscalationDueOff(b) == b.round_counter > b.difficulty_level * b.escalation_rate

EscalationDue(b) == b.round_counter >= b.difficulty_level * b.escalation_rate

Escalated(b) ==
    [b EXCEPT !.small_blind = Min(b.small_blind + BossStep, b.max_blind_cap),
              !.big_blind = Min(b.big_blind + BossStep, b.max_blind_cap),
              !.round_counter = 0]

TickedAlways(b) ==
    LET t == [b EXCEPT !.round_counter = b.round_counter + 1]
    IN  IF EscalationDue(t) THEN Escalated(t) ELSE t

Ticked(b) ==
    IF b.boss_mode_active
    THEN LET t == [b EXCEPT !.round_counter = b.round_counter + 1]
         IN  IF EscalationDue(t) THEN Escalated(t) ELSE t
    ELSE b

increase_boss_blinds ==
    /\ bossPre' = boss
    /\ boss' = Ticked(boss)
    /\ Called("increase_boss_blinds", None, None, "None")
    /\ UNCHANGED <<ledgerVars, voucherVars, handVars, nodeVars>>

RECURSIVE BossRulesApplied(_, _)
BossRulesApplied(rules, l) ==
    IF rules = <<>> THEN l
    ELSE LET rule == Head(rules)[1]
             value == Head(rules)[2]
             next == IF rule = "bonus_chips" THEN [l EXCEPT !.chips = l.chips + value]
                     ELSE IF rule = "double_bet" THEN [l EXCEPT !.double_bet = TRUE]
                     ELSE l
         IN  BossRulesApplied(Tail(rules), next)

apply_boss_rules ==
    /\ InLedgerRange(BossRulesApplied(boss.special_rules, ledger))
    /\ ledgerPre' = ledger
    /\ ledger' = BossRulesApplied(boss.special_rules, ledger)
    /\ bossPre' = boss
    /\ Called("apply_boss_rules", boss.special_rules, None, "None")
    /\ UNCHANGED <<boss, ledger0, voucherVars, handVars, nodeVars>>


(***************************************************************************)
(* Effect                                                                  *)
(***************************************************************************)
EffectTypes == {"increase_chips", "double_bet", "swap_cards", "mystery"}

Effect(effect_type, value) == [effect_type |-> effect_type, value |-> value]

Effects == {Effect(t, v) : t \in EffectTypes, v \in {None} \cup {Some(m) : m \in 0..MaxValue}}

EffectAppliedElseDoubleBet(e, l) ==
    IF e.effect_type = "increase_chips" /\ e.value # None
    THEN [l EXCEPT !.chips = l.chips + e.value[1]]
    ELSE IF e.effect_type = "swap_cards" THEN l
    ELSE [l EXCEPT !.double_bet = TRUE]

EffectApplied(e, l) ==
    IF e.effect_type = "increase_chips" /\ e.value # None
    THEN [l EXCEPT !.chips = l.chips + e.value[1]]
    ELSE IF e.effect_type = "double_bet" THEN [l EXCEPT !.double_bet = TRUE]
    ELSE IF e.effect_type = "swap_cards" THEN l
    ELSE l

Effect_apply(e) ==
    /\ InLedgerRange(EffectApplied(e, ledger))
    /\ ledgerPre' = ledger
    /\ ledger' = EffectApplied(e, ledger)
    /\ Called("Effect.apply", e, None, "None")
    /\ UNCHANGED <<ledger0, bossVars, voucherVars, handVars, nodeVars>>

(***************************************************************************)
(* BalatroDeck                                                             *)
(***************************************************************************)
RECURSIVE DeckRulesApplied(_, _)
DeckRulesApplied(rules, l) ==
    IF rules = <<>> THEN l
    ELSE LET rule == Head(rules)[1]
             value == Head(rules)[2]
             next == IF rule = "bonus_chips" THEN [l EXCEPT !.chips = l.chips + value]
                     ELSE IF rule = "extra_multiplier"
                          THEN [l EXCEPT !.base_multiplier = l.base_multiplier + value]
                     ELSE IF rule = "reroll_bonus"
                          THEN [l EXCEPT !.rerolls_remaining = l.rerolls_remaining + value]
                     ELSE l
         IN  DeckRulesApplied(Tail(rules), next)

apply_special_rules(special_rules) ==
    /\ InLedgerRange(DeckRulesApplied(special_rules, ledger))
    /\ ledgerPre' = ledger
    /\ ledger' = DeckRulesApplied(special_rules, ledger)
    /\ Called("BalatroDeck.apply_special_rules", special_rules, None, "None")
    /\ UNCHANGED <<ledger0, bossVars, voucherVars, handVars, nodeVars>>

(***************************************************************************)
(* Voucher                                                                 *)
(***************************************************************************)
VoucherTypes == {"Discount", "Reroll Bonus", "Shop Slots", "Bonus Chips", "mystery"}

Voucher(effect_type, effect_value) == [effect_type |-> effect_type, effect_value |-> effect_value]

Vouchers == {Voucher(t, v) : t \in VoucherTypes, v \in {-1} \cup Values}

VoucherAppliedToChips(v, l) ==
    IF v.effect_type \in {"Discount", "Reroll Bonus", "Shop Slots", "Bonus Chips"}
    THEN [l EXCEPT !.chips = l.chips + v.effect_value]
    ELSE l

VoucherApplied(v, l) ==
    IF v.effect_type = "Discount"
    THEN [l EXCEPT !.shop_discount = l.shop_discount + v.effect_value]
    ELSE IF v.effect_type = "Reroll Bonus"
    THEN [l EXCEPT !.rerolls_remaining = l.rerolls_remaining + v.effect_value]
    ELSE IF v.effect_type = "Shop Slots"
    THEN [l EXCEPT !.shop_slots = l.shop_slots + v.effect_value]
    ELSE IF v.effect_type = "Bonus Chips"
    THEN [l EXCEPT !.chips = l.chips + v.effect_value]
    ELSE l

Voucher_apply_effect(v) ==
    /\ ledgerPre' = ledger
    /\ ledger' = VoucherApplied(v, ledger)
    /\ Called("Voucher.apply_effect", v, None, "None")
    /\ UNCHANGED <<ledger0, bossVars, handVars, nodeVars>>

(***************************************************************************)
(* Hand.  base_multiplier and calculate_multiplier count in halves: 3 is   *)
(* the float 1.5.                                                          *)
(***************************************************************************)
HAND_BASE_MULTIPLIERS ==
    ("High Card" :> 2) @@ ("Pair" :> 3) @@ ("Two Pair" :> 4) @@ ("Three of a Kind" :> 5)
        @@ ("Straight" :> 6) @@ ("Flush" :> 7) @@ ("Full House" :> 8)
        @@ ("Four of a Kind" :> 10) @@ ("Straight Flush" :> 14)

HAND_BASE_CHIPS ==
    ("High Card" :> 5) @@ ("Pair" :> 10) @@ ("Two Pair" :> 15) @@ ("Three of a Kind" :> 20)
        @@ ("Straight" :> 30) @@ ("Flush" :> 40) @@ ("Full House" :> 50)
        @@ ("Four of a Kind" :> 75) @@ ("Straight Flush" :> 100) @@ ("Royal Flush" :> 150)

HandNames == DOMAIN HAND_BASE_CHIPS \cup {"Five of a Kind"}

HandNameInChipTable(name) == name \in DOMAIN HAND_BASE_CHIPS

HandNameValid(name) == name \in DOMAIN HAND_BASE_MULTIPLIERS

\* The constructor: the ValueError of an invalid name, then the two table
\* lookups, each a KeyError on a name its table does not hold.
Hand_init(name) ==
    /\ op' = "Hand"
    /\ arg' = name
    /\ result' = None
    /\ levelUps' = 0
    /\ IF ~HandNameValid(name)
       THEN hand' = None /\ raised' = "ValueError"
       ELSE IF name \notin DOMAIN HAND_BASE_CHIPS \/ name \notin DOMAIN HAND_BASE_MULTIPLIERS
       THEN hand' = None /\ raised' = "KeyError"
       ELSE /\ hand' = [name |-> name,
                        cards |-> <<>>,
                        level |-> 1,
                        base_chips |-> HAND_BASE_CHIPS[name],
                        base_multiplier |-> HAND_BASE_MULTIPLIERS[name]]
            /\ raised' = "None"
    /\ UNCHANGED <<bossVars, ledgerVars, voucherVars, nodeVars>>

ChipsIgnoringLevel(h) == h.base_chips

ChipsOf(h) == h.base_chips * h.level

MultiplierOf(h) == h.base_multiplier * h.level

calculate_chips ==
    /\ hand # None
    /\ Called("calculate_chips", None, ChipsOf(hand), "None")
    /\ UNCHANGED <<handVars, bossVars, ledgerVars, voucherVars, nodeVars>>

calculate_multiplier ==
    /\ hand # None
    /\ Called("calculate_multiplier", None, MultiplierOf(hand), "None")
    /\ UNCHANGED <<handVars, bossVars, ledgerVars, voucherVars, nodeVars>>

level_up ==
    /\ hand # None
    /\ hand.level < MaxLevel
    /\ hand' = [hand EXCEPT !.level = hand.level + 1]
    /\ levelUps' = levelUps + 1
    /\ Called("level_up", None, None, "None")
    /\ UNCHANGED <<bossVars, ledgerVars, voucherVars, nodeVars>>

(***************************************************************************)
(* GameState, PlayState, BuyState.  cls is the object's class; the other   *)
(* fields are the attributes its constructor sets.                         *)
(***************************************************************************)
GameState(state_type, parent) ==
    [cls |-> "GameState",
     state_type |-> state_type,
     parent |-> parent,
     children |-> <<>>,
     visits |-> 0,
     value |-> 0]

PlayState(hand_, chips, multiplier, required_score, current_score, rounds_remaining, jokers, active_buffs) ==
    [cls |-> "PlayState",
     hand |-> hand_,
     chips |-> chips,
     multiplier |-> multiplier,
     required_score |-> required_score,
     current_score |-> current_score,
     rounds_remaining |-> rounds_remaining,
     jokers |-> jokers,
     active_buffs |-> active_buffs,
     is_boss_round |-> FALSE,
     played_hands |-> <<>>,
     bonus_cards_used |-> 0,
     score_multiplier_history |-> <<>>]

BuyState(shop_items, money, jokers_owned, rerolls_remaining, shop_level) ==
    [cls |-> "BuyState",
     shop_items |-> shop_items,
     money |-> money,
     jokers_owned |-> jokers_owned,
     rerolls_remaining |-> rerolls_remaining,
     shop_level |-> shop_level,
     bonus_discount |-> 0,
     items_purchased |-> <<>>,
     free_reroll_used |-> FALSE]

NodeCall(name, r, e) ==
    /\ nodePre' = node
    /\ node' = node
    /\ Called(name, None, r, e)
    /\ UNCHANGED <<bossVars, ledgerVars, voucherVars, handVars>>

GameState_is_terminal ==
    /\ node.cls = "GameState"
    /\ NodeCall("GameState.is_terminal", None, "NotImplementedError")

GameState_get_actions ==
    /\ node.cls = "GameState"
    /\ NodeCall("GameState.get_actions", None, "NotImplementedError")

GameState_simulate ==
    /\ node.cls = "GameState"
    /\ NodeCall("GameState.simulate", None, "NotImplementedError")

PlayTerminalStrict(s) == s.current_score > s.required_score \/ s.rounds_remaining <= 0

PlayTerminal(s) == s.current_score >= s.required_score \/ s.rounds_remaining <= 0

PlayState_is_terminal ==
    /\ node.cls = "PlayState"
    /\ NodeCall("PlayState.is_terminal", PlayTerminal(node), "None")

PlayActions == <<"Pair", "Flush", "Full House", "Straight">>

PlayState_get_actions ==
    /\ node.cls = "PlayState"
    /\ NodeCall("PlayState.get_actions", PlayActions, "None")

PlayState_simulate ==
    /\ node.cls = "PlayState"
    /\ \E i \in 1..Len(PlayActions) :
          LET action == PlayActions[i]
              reward == node.multiplier * 10
          IN  NodeCall("PlayState.simulate", reward, "None")

BuyTerminal(s) == s.money <= 0 \/ s.shop_items = <<>>

BuyState_is_terminal ==
    /\ node.cls = "BuyState"
    /\ NodeCall("BuyState.is_terminal", BuyTerminal(node), "None")

AffordableItems(s) ==
    LET Affordable(item) == item.cost <= s.money
    IN  SelectSeq(s.shop_items, Affordable)

BuyActionsCheaper(s) ==
    LET Cheaper(item) == item.cost < s.money
        items == SelectSeq(s.shop_items, Cheaper)
    IN  [i \in 1..Len(items) |-> items[i].name]

BuyActions(s) ==
    LET items == AffordableItems(s)
    IN  [i \in 1..Len(items) |-> items[i].name]

BuyState_get_actions ==
    /\ node.cls = "BuyState"
    /\ NodeCall("BuyState.get_actions", BuyActions(node), "None")

BuyState_simulate_purchasing ==
    /\ node.cls = "BuyState"
    /\ LET affordable_items == AffordableItems(node)
       IN  IF affordable_items = <<>>
           THEN NodeCall("BuyState.simulate", 0, "None")
           ELSE \E i \in 1..Len(affordable_items) :
                   LET chosen_item == affordable_items[i]
                   IN  /\ nodePre' = node
                       /\ node' = [node EXCEPT
                                      !.money = node.money - chosen_item.cost,
                                      !.items_purchased = Append(node.items_purchased, chosen_item.name)]
                       /\ Called("BuyState.simulate", None,
                                 [num |-> chosen_item.cost, den |-> 10], "None")
                       /\ UNCHANGED <<bossVars, ledgerVars, voucherVars, handVars>>

\* The reward cost / 10 is the fraction [num |-> cost, den |-> 10].
BuyState_simulate ==
    /\ node.cls = "BuyState"
    /\ LET affordable_items == AffordableItems(node)
       IN  IF affordable_items = <<>>
           THEN NodeCall("BuyState.simulate", 0, "None")
           ELSE \E i \in 1..Len(affordable_items) :
                   LET chosen_item == affordable_items[i]
                   IN  NodeCall("BuyState.simulate", [num |-> chosen_item.cost, den |-> 10], "None")

(***************************************************************************)
(* Objects a specification does not exercise keep these values.            *)
(***************************************************************************)
IdleBoss == boss = None /\ bossPre = None

IdleLedger == ledger = LedgerZero /\ ledgerPre = LedgerZero /\ ledger0 = LedgerZero

IdleVoucher == voucher = None /\ calls = 0

IdleHand == hand = None /\ levelUps = 0

IdleNode == node = None /\ nodePre = None

Constructed(name, a) == op = name /\ arg = a /\ result = None /\ raised = "None"

(***************************************************************************)
(* SpecBoss: one BossBlinds object, built with any blinds, cap, rate and   *)
(* difficulty, then driven by its four operations.                         *)
(***************************************************************************)
InitBoss ==
    /\ \E small_blind \in 0..MaxBlind, big_blind \in 0..MaxBlind, max_blind_cap \in 0..MaxBlind,
          escalation_rate \in 0..MaxRate, difficulty_level \in 1..MaxDifficulty,
          special_rules \in BossRuleChoices :
            boss = BossBlinds(small_blind, big_blind, escalation_rate, max_blind_cap,
                              difficulty_level, special_rules)
    /\ bossPre = boss
    /\ IdleLedger /\ IdleVoucher /\ IdleHand /\ IdleNode
    /\ Constructed("BossBlinds", None)

NextBoss ==
    \/ activate_boss_mode
    \/ deactivate_boss_mode
    \/ increase_boss_blinds
    \/ apply_boss_rules

SpecBoss == InitBoss /\ [][NextBoss]_vars

Threshold(b) == b.difficulty_level * b.escalation_rate

\* C1: in every reachable state of a BossBlinds object, small_blind and
\* big_blind are both at most max_blind_cap.
C1_BlindsWithinCap ==
    /\ boss.small_blind <= boss.max_blind_cap
    /\ boss.big_blind <= boss.max_blind_cap

\* C2: an increase_boss_blinds call on an active BossBlinds that brings the
\* tick count (round_counter) to less than difficulty_level * escalation_rate
\* leaves both blinds unchanged and only counts the tick; the call that brings
\* it to exactly difficulty_level * escalation_rate sets both blinds to
\* min(blind + 5, max_blind_cap) and resets round_counter to 0.  No other
\* operation touches the blinds or the tick count.
C2_EscalationAtThreshold ==
    /\ (op = "increase_boss_blinds" /\ bossPre.boss_mode_active) =>
          LET n == bossPre.round_counter + 1
          IN  /\ n < Threshold(bossPre) =>
                    /\ boss.small_blind = bossPre.small_blind
                    /\ boss.big_blind = bossPre.big_blind
                    /\ boss.round_counter = n
              /\ n = Threshold(bossPre) =>
                    /\ boss.small_blind = Min(bossPre.small_blind + 5, bossPre.max_blind_cap)
                    /\ boss.big_blind = Min(bossPre.big_blind + 5, bossPre.max_blind_cap)
                    /\ boss.round_counter = 0
    /\ op \in {"activate_boss_mode", "deactivate_boss_mode", "apply_boss_rules"} =>
          /\ boss.small_blind = bossPre.small_blind
          /\ boss.big_blind = bossPre.big_blind
          /\ boss.round_counter = bossPre.round_counter
    /\ boss.round_counter >= 0
    /\ Threshold(boss) = Threshold(bossPre)
    /\ boss.max_blind_cap = bossPre.max_blind_cap

\* Reached: the second tick of an active BossBlinds with threshold 2 raised
\* the small blind by 5 and clamped the big blind at the cap.
C2_Witness ==
    /\ op = "increase_boss_blinds"
    /\ bossPre.boss_mode_active
    /\ Threshold(bossPre) = 2
    /\ bossPre.round_counter = 1
    /\ boss.round_counter = 0
    /\ boss.small_blind = bossPre.small_blind + 5
    /\ boss.big_blind = boss.max_blind_cap
    /\ boss.big_blind < bossPre.big_blind + 5
    /\ boss.big_blind > bossPre.big_blind

\* C3: while boss mode is inactive, increase_boss_blinds leaves small_blind,
\* big_blind and round_counter (and every other field) unchanged.
C3_InactiveTickNoChange ==
    (op = "increase_boss_blinds" /\ ~bossPre.boss_mode_active) =>
        /\ boss.small_blind = bossPre.small_blind
        /\ boss.big_blind = bossPre.big_blind
        /\ boss.round_counter = bossPre.round_counter
        /\ boss = bossPre

\* Reached: a tick on a BossBlinds deactivated in the middle of a count, with
\* room left under the cap.
C3_Witness ==
    /\ op = "increase_boss_blinds"
    /\ ~bossPre.boss_mode_active
    /\ bossPre.round_counter = 1
    /\ bossPre.small_blind + 5 <= bossPre.max_blind_cap
    /\ boss = bossPre


(***************************************************************************)
(* SpecLedger: one ledger, mutated by the four tag dispatchers in any      *)
(* order and with any tags.                                                *)
(***************************************************************************)
InitLedger ==
    /\ \E special_rules \in BossRuleChoices :
          boss = BossBlinds(0, 0, 1, MaxBlind, 1, special_rules)
    /\ bossPre = boss
    /\ IdleLedger /\ IdleVoucher /\ IdleHand /\ IdleNode
    /\ Constructed("BossBlinds", None)

NextLedger ==
    \/ \E e \in Effects : Effect_apply(e)
    \/ \E special_rules \in RuleDicts : apply_special_rules(special_rules)
    \/ \E v \in Vouchers :
          /\ InLedgerRange(VoucherApplied(v, ledger))
          /\ Voucher_apply_effect(v)
          /\ UNCHANGED voucherVars
    \/ apply_boss_rules

SpecLedger == InitLedger /\ [][NextLedger]_vars

EffectTags == {"increase_chips", "double_bet", "swap_cards"}
DeckTags == {"bonus_chips", "extra_multiplier", "reroll_bonus"}
VoucherTags == {"Discount", "Reroll Bonus", "Shop Slots", "Bonus Chips"}
BossTags == {"bonus_chips", "double_bet"}

Tags(rules) == {rules[i][1] : i \in 1..Len(rules)}

DeckKnown(pair) == pair[1] \in DeckTags

BossKnown(pair) == pair[1] \in BossTags

\* C8: on each of the four dispatchers a tag the dispatcher does not recognize
\* raises nothing and changes no ledger field (a dict of only such tags leaves
\* the ledger as it was, and in a mixed dict the ledger is what the recognized
\* tags alone make it); Effect('increase_chips', None) does the same; and
\* Effect('increase_chips', m) adds exactly m to chips and changes nothing else.
C8_UnknownTagIsNoOp ==
    /\ raised = "None"
    /\ (op = "Effect.apply" /\ arg.effect_type \notin EffectTags) => ledger = ledgerPre
    /\ (op = "Effect.apply" /\ arg.effect_type = "increase_chips" /\ arg.value = None) =>
          ledger = ledgerPre
    /\ (op = "Effect.apply" /\ arg.effect_type = "increase_chips" /\ arg.value # None) =>
          ledger = [ledgerPre EXCEPT !.chips = ledgerPre.chips + arg.value[1]]
    /\ (op = "Voucher.apply_effect" /\ arg.effect_type \notin VoucherTags) => ledger = ledgerPre
    /\ op = "BalatroDeck.apply_special_rules" =>
          /\ Tags(arg) \cap DeckTags = {} => ledger = ledgerPre
          /\ ledger = DeckRulesApplied(SelectSeq(arg, DeckKnown), ledgerPre)
    /\ op = "apply_boss_rules" =>
          /\ Tags(arg) \cap BossTags = {} => ledger = ledgerPre
          /\ ledger = BossRulesApplied(SelectSeq(arg, BossKnown), ledgerPre)

\* Reached: an effect of an unknown kind, carrying a magnitude, applied to a
\* ledger that already holds chips and a doubled bet flag still unset.
C8_Witness ==
    /\ op = "Effect.apply"
    /\ arg = Effect("mystery", Some(2))
    /\ ledgerPre.chips = 1
    /\ ~ledgerPre.double_bet
    /\ ledger = ledgerPre

(***************************************************************************)
(* SpecVoucher: one voucher applied again and again to one ledger.         *)
(***************************************************************************)
InitVoucher ==
    /\ voucher \in Vouchers
    /\ calls = 0
    /\ \E chips \in 0..1, shop_discount \in 0..1 :
          ledger = [LedgerZero EXCEPT !.chips = chips, !.shop_discount = shop_discount]
    /\ ledgerPre = ledger
    /\ ledger0 = ledger
    /\ IdleBoss /\ IdleHand /\ IdleNode
    /\ Constructed("Voucher", None)

NextVoucher ==
    /\ calls < MaxCalls
    /\ Voucher_apply_effect(voucher)
    /\ calls' = calls + 1
    /\ UNCHANGED voucher

SpecVoucher == InitVoucher /\ [][NextVoucher]_vars

VoucherTarget(effect_type) ==
    CASE effect_type = "Discount" -> "shop_discount"
      [] effect_type = "Reroll Bonus" -> "rerolls_remaining"
      [] effect_type = "Shop Slots" -> "shop_slots"
      [] effect_type = "Bonus Chips" -> "chips"

NumericFields ==
    {"chips", "multiplier", "base_multiplier", "rerolls_remaining", "shop_discount", "shop_slots"}

\* C5 as stated: however many times apply_effect is called with the same
\* voucher and ledger, the targeted field holds its starting value plus
\* effect_value, once.
C5_VoucherOneShot ==
    (calls >= 1 /\ voucher.effect_type \in VoucherTags) =>
        ledger[VoucherTarget(voucher.effect_type)]
            = ledger0[VoucherTarget(voucher.effect_type)] + voucher.effect_value

\* C5 amended: every apply_effect call adds effect_value to the targeted field
\* once more, so after k calls the field holds its starting value plus
\* k * effect_value; no other field changes, and a voucher of an unknown type
\* changes nothing.
C5_VoucherAddsPerCall ==
    /\ \A f \in NumericFields :
          ledger[f] = ledger0[f]
              + (IF voucher.effect_type \in VoucherTags /\ f = VoucherTarget(voucher.effect_type)
                 THEN calls * voucher.effect_value ELSE 0)
    /\ ledger.double_bet = ledger0.double_bet
    /\ (op = "Voucher.apply_effect" /\ voucher.effect_type \in VoucherTags) =>
          ledger[VoucherTarget(voucher.effect_type)]
              = ledgerPre[VoucherTarget(voucher.effect_type)] + voucher.effect_value

\* Reached: a 1-point discount voucher applied twice has lowered
\* shop_discount by 2.
C5_Witness ==
    /\ op = "Voucher.apply_effect"
    /\ calls = 2
    /\ voucher = Voucher("Discount", -1)
    /\ ledger.shop_discount = ledger0.shop_discount - 2


(***************************************************************************)
(* SpecHand: Hand objects built from any category name, levelled up and    *)
(* scored.                                                                 *)
(***************************************************************************)
InitHand ==
    /\ \E name \in DOMAIN HAND_BASE_MULTIPLIERS :
          /\ hand = [name |-> name, cards |-> <<>>, level |-> 1,
                     base_chips |-> HAND_BASE_CHIPS[name],
                     base_multiplier |-> HAND_BASE_MULTIPLIERS[name]]
          /\ Constructed("Hand", name)
    /\ levelUps = 0
    /\ IdleBoss /\ IdleLedger /\ IdleVoucher /\ IdleNode

NextHand ==
    \/ \E name \in HandNames : Hand_init(name)
    \/ level_up
    \/ calculate_chips
    \/ calculate_multiplier

SpecHand == InitHand /\ [][NextHand]_vars

NineCategories ==
    {"High Card", "Pair", "Two Pair", "Three of a Kind", "Straight", "Flush",
     "Full House", "Four of a Kind", "Straight Flush"}

\* C6: constructing a Hand with a category outside the nine multiplier-bearing
\* ones, "Royal Flush" included, raises the invalid-name ValueError and yields
\* no Hand; with one of the nine it succeeds, at level 1, with the table's
\* base_chips and base_multiplier.
C6_HandConstruction ==
    op = "Hand" =>
        IF arg \in NineCategories
        THEN /\ raised = "None"
             /\ hand # None
             /\ hand.name = arg
             /\ hand.level = 1
             /\ hand.base_chips = HAND_BASE_CHIPS[arg]
             /\ hand.base_multiplier = HAND_BASE_MULTIPLIERS[arg]
        ELSE /\ raised = "ValueError"
             /\ hand = None

\* Reached: Hand("Royal Flush", ...) was refused.
C6_Witness ==
    /\ op = "Hand"
    /\ arg = "Royal Flush"
    /\ raised = "ValueError"
    /\ hand = None

\* C7: after n level_up calls a Hand is at level 1 + n, its base values are
\* still the table's, calculate_chips() is base_chips * level and
\* calculate_multiplier() is base_multiplier * level: (1 + n) times the
\* level-1 values.
C7_LinearInLevel ==
    hand # None =>
        /\ hand.level = 1 + levelUps
        /\ hand.base_chips = HAND_BASE_CHIPS[hand.name]
        /\ hand.base_multiplier = HAND_BASE_MULTIPLIERS[hand.name]
        /\ op = "level_up" => levelUps >= 1
        /\ op = "calculate_chips" =>
              /\ result = hand.base_chips * hand.level
              /\ result = (1 + levelUps) * HAND_BASE_CHIPS[hand.name]
        /\ op = "calculate_multiplier" =>
              /\ result = hand.base_multiplier * hand.level
              /\ result = (1 + levelUps) * HAND_BASE_MULTIPLIERS[hand.name]

\* Reached: a Full House levelled up twice scores 150 chips, three times 50.
C7_Witness ==
    /\ op = "calculate_chips"
    /\ hand # None
    /\ hand.name = "Full House"
    /\ levelUps = 2
    /\ hand.level = 3
    /\ result = 150

(***************************************************************************)
(* SpecNode: one search-tree node of any of the three classes, and the     *)
(* three operations of the node contract.                                  *)
(***************************************************************************)
Items == [name : {"A", "B"}, cost : 0..MaxCost]

ItemLists == UNION {[1..k -> Items] : k \in 0..MaxItems}

RootNode == GameState("Play", None)

InitNode ==
    /\ \/ \E state_type \in {"Play", "Buy"}, parent \in {None, Some(RootNode)} :
             /\ node = GameState(state_type, parent)
             /\ Constructed("GameState", None)
       \/ \E chips \in 0..1, multiplier \in 1..MaxMultiplier, required_score \in 0..MaxScore,
             current_score \in 0..MaxScore, rounds_remaining \in -1..MaxRounds :
             /\ node = PlayState(<<>>, chips, multiplier, required_score, current_score,
                                 rounds_remaining, <<>>, <<>>)
             /\ Constructed("PlayState", None)
       \/ \E shop_items \in ItemLists, money \in 0..MaxMoney :
             /\ node = BuyState(shop_items, money, <<>>, 0, 1)
             /\ Constructed("BuyState", None)
    /\ nodePre = node
    /\ IdleBoss /\ IdleLedger /\ IdleVoucher /\ IdleHand

NextNode ==
    \/ GameState_is_terminal
    \/ GameState_get_actions
    \/ GameState_simulate
    \/ PlayState_is_terminal
    \/ PlayState_get_actions
    \/ PlayState_simulate
    \/ BuyState_is_terminal
    \/ BuyState_get_actions
    \/ BuyState_simulate

SpecNode == InitNode /\ [][NextNode]_vars

\* C4: every node, of whichever class, has the search statistics from its
\* construction on (visits 0, value 0.0, no children, a parent link), and no
\* operation of the node changes visits or value.
C4_NodeCarriesStatistics ==
    /\ {"parent", "children", "visits", "value"} \subseteq DOMAIN node
    /\ node.visits = 0
    /\ node.value = 0
    /\ node.children = <<>>

AffordableIndices(s) == {i \in 1..Len(s.shop_items) : s.shop_items[i].cost <= s.money}

\* C10: BuyState.get_actions() returns the names of the items with cost <=
\* money, one per such item, in shop order (the k-th name returned is the name
\* of the k-th affordable item), and leaves the state as it was.
C10_BuyActions ==
    op = "BuyState.get_actions" =>
        /\ raised = "None"
        /\ node = nodePre
        /\ Len(result) = Cardinality(AffordableIndices(nodePre))
        /\ \A i \in AffordableIndices(nodePre) :
              result[Cardinality({j \in AffordableIndices(nodePre) : j <= i})]
                  = nodePre.shop_items[i].name

\* Reached: of three items the first costs more than the money held and the
\* next two, of the same name, do not; the result names those two, in order.
C10_Witness ==
    /\ op = "BuyState.get_actions"
    /\ node.money = 1
    /\ node.shop_items = <<[name |-> "B", cost |-> 2], [name |-> "A", cost |-> 1],
                           [name |-> "A", cost |-> 0]>>
    /\ result = <<"A", "A">>

\* C11: simulate() changes no attribute of the node, whichever random choice
\* it makes (and gives the node no attribute it did not have).  On a PlayState
\* it returns multiplier * 10.  On a BuyState it returns 0 when no shop item
\* has cost <= money, and otherwise cost / 10 of one of the items with
\* cost <= money.
C11_SimulateIsPure ==
    /\ op = "PlayState.simulate" =>
          /\ raised = "None"
          /\ node = nodePre
          /\ DOMAIN node = DOMAIN nodePre
          /\ result = nodePre.multiplier * 10
    /\ op = "BuyState.simulate" =>
          /\ raised = "None"
          /\ node = nodePre
          /\ DOMAIN node = DOMAIN nodePre
          /\ IF AffordableIndices(nodePre) = {}
             THEN result = 0
             ELSE \E i \in AffordableIndices(nodePre) :
                     result = [num |-> nodePre.shop_items[i].cost, den |-> 10]

\* Reached: with money 1 and three items of cost 2, 0 and 1, the rollout drew
\* the last one and returned 1 / 10, the state as it was.
C11_Witness ==
    /\ op = "BuyState.simulate"
    /\ node.money = 1
    /\ node.shop_items = <<[name |-> "B", cost |-> 2], [name |-> "A", cost |-> 0],
                           [name |-> "A", cost |-> 1]>>
    /\ node.items_purchased = <<>>
    /\ node = nodePre
    /\ result = [num |-> 1, den |-> 10]

=============================================================================
